---- MODULE Spec2Model ----
(***************************************************************************)
(* A model of phylib's ALF dataset generation (phylib/io/alf.py): the      *)
(* EphysAlfCreator.convert pipeline over a source and a destination        *)
(* directory, and the array computations of its stages.                    *)
(*                                                                         *)
(* Conventions.                                                            *)
(*  - A file name is the tuple of its dot-separated parts:                 *)
(*    spikes.clusters.npy is <<"spikes", "clusters", "npy">>.  The last    *)
(*    part is pathlib's suffix, the first part is the ALF object.          *)
(*  - A directory is a function from file names to file contents.          *)
(*  - A file content is [shape |-> .., data |-> ..]: for a .npy file the   *)
(*    header's shape and the flat payload; for a text file shape is <<>>.  *)
(*    Two files are byte-identical iff their contents are equal.           *)
(*  - numpy indices are 0-based, TLA+ sequences 1-based: At(s, i) reads    *)
(*    s at the 0-based index i.                                            *)
(*  - A float that may be NaN is NaN (the empty tuple) or F(v) (<<v>>).    *)
(***************************************************************************)
EXTENDS Integers, Sequences, FiniteSets, TLC

VARIABLES
  \* ---- the convert pipeline (Spec)
  model,      \* self.model: the sorting result the creator was built with
  src,        \* the files of self.dir_path, the source directory
  dst,        \* the files of the destination directory
  dst_exists, \* whether the destination directory exists
  pc,         \* where convert is: idle / a stage / done / raised / failed
  out_path,   \* self.out_path of the current call
  force,      \* the force argument of the current call
  label,      \* self.label
  ampfactor,  \* self.ampfactor
  ncalls,     \* convert calls made so far
  uuid_ctr,   \* identifiers uuid.uuid4() has handed out so far
  ret,        \* what the last completed convert returned
  hist,       \* history: what earlier steps of the run saw (for the claims)
  \* ---- the stage computations on their own (SpecCopy, SpecProject, ...)
  fin,        \* the inputs the computation was called with
  fout,       \* its result so far
  fpc         \* its position

vars == <<model, src, dst, dst_exists, pc, out_path, force, label, ampfactor,
          ncalls, uuid_ctr, ret, hist, fin, fout, fpc>>

convert_vars == <<model, src, dst, dst_exists, pc, out_path, force, label,
                  ampfactor, ncalls, uuid_ctr, ret, hist>>

fun_vars == <<fin, fout, fpc>>

(***************************************************************************)
(* Bounds of the model.                                                    *)
(***************************************************************************)
MaxCalls == 2

(***************************************************************************)
(* Generic helpers.                                                        *)
(***************************************************************************)
At(s, i) == s[i + 1]

Put(D, f, c) == [x \in (DOMAIN D) \cup {f} |-> IF x = f THEN c ELSE D[x]]

Remove(D, f) == [x \in (DOMAIN D) \ {f} |-> D[x]]

Arr(shape, data) == [shape |-> shape, data |-> data]

Arr1(data) == Arr(<<Len(data)>>, data)

Text(k) == Arr(<<>>, <<k>>)

NaN == <<>>

F(v) == <<v>>

Scale(x, k) == IF x = NaN THEN NaN ELSE F(x[1] * k)

Suffix(f) == f[Len(f)]

\* Path.with_suffix('.' + lab + f.suffix): the last part is replaced by lab, suffix.
WithLabel(f, lab) == SubSeq(f, 1, Len(f) - 1) \o <<lab, Suffix(f)>>

\* Path.resolve(): "src_link" is another path of the source directory.
Resolve(p) == IF p = "src_link" THEN "src" ELSE p

NCH_WAVEFORMS == 32

_FILE_RENAMES ==
  << [fn0 |-> <<"params", "py">>, fn1 |-> <<"params", "py">>, squeeze |-> "None"],
     [fn0 |-> <<"cluster_metrics", "csv">>, fn1 |-> <<"clusters", "metrics", "csv">>, squeeze |-> "None"],
     [fn0 |-> <<"spike_clusters", "npy">>, fn1 |-> <<"spikes", "clusters", "npy">>, squeeze |-> "True"],
     [fn0 |-> <<"spike_templates", "npy">>, fn1 |-> <<"spikes", "templates", "npy">>, squeeze |-> "True"],
     [fn0 |-> <<"channel_positions", "npy">>, fn1 |-> <<"channels", "localCoordinates", "npy">>, squeeze |-> "False"],
     [fn0 |-> <<"channel_probe", "npy">>, fn1 |-> <<"channels", "probes", "npy">>, squeeze |-> "True"],
     [fn0 |-> <<"cluster_probes", "npy">>, fn1 |-> <<"clusters", "probes", "npy">>, squeeze |-> "True"],
     [fn0 |-> <<"cluster_shanks", "npy">>, fn1 |-> <<"clusters", "shanks", "npy">>, squeeze |-> "True"] >>

FILE_DELETES == << <<"temp_wh", "dat">> >>

(***************************************************************************)
(* File utils.                                                             *)
(***************************************************************************)
\* _read_npy_header: the header's dict, of which only the shape is used.
_read_npy_header(c) == [shape |-> c.shape]

\* numpy's ndarray.squeeze(): every axis of length 1 is dropped.
Squeeze(c) == Arr(SelectSeq(c.shape, LAMBDA n : n # 1), c.data)

\* _create_if_possible: the source exists, and the destination does not or force.
\* (ensure_dir_exists(new_path.parent) finds the directory convert has made.)
_create_if_possible(S, D, path, new_path, frc) ==
  IF path \notin DOMAIN S THEN FALSE
  ELSE IF new_path \in DOMAIN D /\ ~frc THEN FALSE
  ELSE TRUE

\* _copy_if_possible: the destination directory after the call.
_copy_if_possible(S, D, path, new_path, frc) ==
  IF ~_create_if_possible(S, D, path, new_path, frc) THEN D
  ELSE Put(D, new_path, S[path])

\* Whether copy_files saves the squeezed array over f1 (lines 143-149).
SqueezeApplies(S, r) ==
  /\ r.fn0 \in DOMAIN S
  /\ r.squeeze = "True"
  /\ Suffix(r.fn0) = "npy"
  /\ LET h == _read_npy_header(S[r.fn0])
     IN Len(h.shape) = 2 /\ h.shape[Len(h.shape)] = 1

\* One iteration of copy_files' loop, for the mapping r.
CopyOne(S, D, r, frc) ==
  LET D1 == _copy_if_possible(S, D, r.fn0, r.fn1, frc)
  IN IF SqueezeApplies(S, r) THEN Put(D1, r.fn1, Squeeze(S[r.fn0])) ELSE D1

RECURSIVE CopyFrom(_, _, _, _)
CopyFrom(S, D, i, frc) ==
  IF i > Len(_FILE_RENAMES) THEN D
  ELSE CopyFrom(S, CopyOne(S, D, _FILE_RENAMES[i], frc), i + 1, frc)

\* copy_files: the destination directory after the whole loop.
copy_files(S, D, frc) == CopyFrom(S, D, 1, frc)

(***************************************************************************)
(* The sorting results (self.model) the pipeline is run on.  Channel,      *)
(* cluster and template ids are 0-based, as in the arrays.                 *)
(*   sparse_templates.data[t][s][c], sparse_features.data[spike][j][k].    *)
(***************************************************************************)
NoFeatures == [present |-> FALSE, data |-> <<>>, cols |-> <<>>]

ModelDense ==
  [ spike_times |-> <<1, 2, 3>>,
    spike_samples |-> <<10, 20, 30>>,
    spike_clusters |-> <<0, 1, 2>>,
    amplitudes |-> <<2, 3, 4>>,
    cluster_ids |-> <<0, 1, 2>>,
    channel_positions |-> << <<0, 0>>, <<0, 10>>, <<5, 0>> >>,
    channel_probes |-> <<0, 0, 1>>,
    channel_mapping |-> <<0, 1, 2>>,
    n_templates |-> 3,
    templates_channels |-> <<0, 1, 2>>,
    templates_waveforms_durations |-> <<3, 4, 5>>,
    templates_amplitudes |-> <<5, 7, 9>>,
    sparse_templates |->
      [data |-> << << <<1, 2, 3>> >>, << <<4, 5, 6>> >>, << <<7, 8, 9>> >> >>,
       cols |-> <<>>],
    sparse_features |-> NoFeatures ]

ModelFeatures ==
  [ModelDense EXCEPT
     !.sparse_features =
        [present |-> TRUE,
         data |-> << << <<1, 0>>, <<2, 0>> >>,
                     << <<0, 1>>, <<3, 1>> >>,
                     << <<2, 2>>, <<1, 2>> >> >>,
         cols |-> << <<0, 1>>, <<1, 2>>, <<2, 0>> >>]]

Models == {ModelDense, ModelFeatures}

(***************************************************************************)
(* Stage 2: make_spike_times_amplitudes.                                   *)
(***************************************************************************)
_save_npy(D, filename, arr) == Put(D, filename, arr)

make_spike_times_amplitudes(m, D, amp) ==
  LET D1 == _save_npy(D, <<"spikes", "times", "npy">>, Arr1(m.spike_times))
      D2 == _save_npy(D1, <<"spikes", "samples", "npy">>, Arr1(m.spike_samples))
  IN _save_npy(D2, <<"spikes", "amps", "npy">>,
               Arr1([i \in 1..Len(m.amplitudes) |-> m.amplitudes[i] * amp]))

(***************************************************************************)
(* Stage 3: make_cluster_objects.                                          *)
(***************************************************************************)
SeqMax(s) == CHOOSE x \in {s[i] : i \in 1..Len(s)} : \A j \in 1..Len(s) : s[j] <= x

SeqMin(s) == CHOOSE x \in {s[i] : i \in 1..Len(s)} : \A j \in 1..Len(s) : x <= s[j]

\* camps[cluster_ids - min] = templates_amplitudes is a numpy fancy assignment: the
\* value must have as many entries as there are indices, or one (broadcast).
CampsAssignable(cluster_ids, templates_amplitudes) ==
  /\ Len(cluster_ids) > 0
  /\ Len(templates_amplitudes) \in {1, Len(cluster_ids)}

\* The array without "* np.nan": the unobserved slots are left at zero.
CampsZeros(cluster_ids, templates_amplitudes) ==
  LET lo == SeqMin(cluster_ids)
      size == SeqMax(cluster_ids) - lo + 1
  IN [k \in 1..size |->
        IF \E i \in 1..Len(cluster_ids) : cluster_ids[i] - lo = k - 1
        THEN F(templates_amplitudes[
                 IF Len(templates_amplitudes) = 1 THEN 1
                 ELSE CHOOSE i \in 1..Len(cluster_ids) : cluster_ids[i] - lo = k - 1])
        ELSE F(0)]

\* Lines 183-184: NaN everywhere, then the observed ids' slots filled in order.
Camps(cluster_ids, templates_amplitudes) ==
  LET lo == SeqMin(cluster_ids)
      size == SeqMax(cluster_ids) - lo + 1
      val(i) == IF Len(templates_amplitudes) = 1 THEN templates_amplitudes[1]
                ELSE templates_amplitudes[i]
  IN [k \in 1..size |->
        IF \E i \in 1..Len(cluster_ids) : cluster_ids[i] - lo = k - 1
        THEN F(val(CHOOSE i \in 1..Len(cluster_ids) :
                     /\ cluster_ids[i] - lo = k - 1
                     /\ \A j \in 1..Len(cluster_ids) :
                          cluster_ids[j] - lo = k - 1 => j <= i))
        ELSE NaN]

\* Lines 189-192: the header line (0 stands for it) and camps.size fresh uuid4's;
\* an identifier is the number of the uuid4() call that made it.
UuidList(size, ctr) == <<0>> \o [i \in 1..size |-> ctr + i]

\* The destination directory and uuid counter after the stage; ok is FALSE when
\* the stage raises (no file of lines 186-192 is then written).
make_cluster_objects(m, S, D, amp, ctr) ==
  LET D1 == IF <<"clusters", "channels", "npy">> \notin DOMAIN S
            THEN _save_npy(D, <<"clusters", "channels", "npy">>, Arr1(m.templates_channels))
            ELSE D
      D2 == IF <<"clusters", "peakToTrough", "npy">> \notin DOMAIN S
            THEN _save_npy(D1, <<"clusters", "peakToTrough", "npy">>,
                           Arr1(m.templates_waveforms_durations))
            ELSE D1
  IN IF ~CampsAssignable(m.cluster_ids, m.templates_amplitudes)
     THEN [ok |-> FALSE, dst |-> D2, ctr |-> ctr]
     ELSE
       LET camps == Camps(m.cluster_ids, m.templates_amplitudes)
           D3 == _save_npy(D2, <<"clusters", "amps", "npy">>,
                           Arr1([k \in 1..Len(camps) |-> Scale(camps[k], amp)]))
           D4 == Put(D3, <<"clusters", "uuids", "csv">>,
                     Arr(<<>>, UuidList(Len(camps), ctr)))
       IN [ok |-> TRUE, dst |-> D4, ctr |-> ctr + Len(camps)]

(***************************************************************************)
(* Stage 4: make_channel_objects.                                          *)
(***************************************************************************)
\* np.unique: the distinct values, ascending.
RECURSIVE SortedSeq(_)
SortedSeq(S) ==
  IF S = {} THEN <<>>
  ELSE LET x == CHOOSE y \in S : \A z \in S : y <= z
       IN <<x>> \o SortedSeq(S \ {x})

Unique(s) == SortedSeq({s[i] : i \in 1..Len(s)})

RECURSIVE RawIndFrom(_, _, _, _, _)
RawIndFrom(m, probes, k, rawInd, channel_offset) ==
  IF k > Len(probes) THEN rawInd
  ELSE
    LET ind == {i \in 1..Len(m.channel_probes) : m.channel_probes[i] = probes[k]}
        r2 == [i \in 1..Len(rawInd) |->
                 IF i \in ind THEN m.channel_mapping[i] - channel_offset ELSE rawInd[i]]
        mx == CHOOSE x \in {m.channel_mapping[i] : i \in ind} :
                 \A i \in ind : m.channel_mapping[i] <= x
    IN RawIndFrom(m, probes, k + 1, r2, channel_offset + mx)

make_channel_objects(m, D) ==
  _save_npy(D, <<"channels", "rawInd", "npy">>,
            Arr1(RawIndFrom(m, Unique(m.channel_probes), 1,
                            [i \in 1..Len(m.channel_probes) |-> 0], 0)))

(***************************************************************************)
(* Stage 5: make_depths.  A per-spike depth is the exact fraction          *)
(* num / den; den = 0 is numpy's 0/0, NaN.                                 *)
(***************************************************************************)
RECURSIVE SumTo(_, _)
SumTo(f, n) == IF n = 0 THEN 0 ELSE f[n] + SumTo(f, n - 1)

Frac(n, d) == [num |-> n, den |-> d]

nbatch == 50000

\* Lines 231-236 for one spike s (0-based): the squared first components weigh the
\* y positions of the channels of the spike's cluster; every term is divided by the
\* sum of the weights.
SpikeDepth(m, s) ==
  LET sf == m.sparse_features
      row == At(sf.data, s)
      features == [j \in 1..Len(row) |-> row[j][1] * row[j][1]]
      ichannels == At(sf.cols, At(m.spike_clusters, s))
      ypos == [j \in 1..Len(row) |-> At(m.channel_positions, ichannels[j])[2]]
  IN Frac(SumTo([j \in 1..Len(row) |-> ypos[j] * features[j]], Len(row)),
          SumTo(features, Len(row)))

Min2(a, b) == IF a <= b THEN a ELSE b

\* A batch that runs one spike into the next batch.
IspiInclusive(c, nb, nspi) == {i \in 0..(nspi - 1) : c <= i /\ i <= Min2(c + nb, nspi)}

\* np.arange(c, min(c + nb, nspi)), as a set of 0-based spike indices.
Ispi(c, nb, nspi) == {i \in 0..(nspi - 1) : c <= i /\ i < Min2(c + nb, nspi)}

\* One pass of the while loop's body (lines 229-236): spikes_depths afterwards.
DepthBatch(m, spikes_depths, c, nb) ==
  LET ispi == Ispi(c, nb, Len(spikes_depths))
  IN [i \in 1..Len(spikes_depths) |->
        IF (i - 1) \in ispi THEN SpikeDepth(m, i - 1) ELSE spikes_depths[i]]

\* The while True loop of lines 228-239: the body runs, then c += nb, and the loop
\* ends once c >= nspi.
RECURSIVE DepthLoop(_, _, _, _)
DepthLoop(m, spikes_depths, c, nb) ==
  LET d2 == DepthBatch(m, spikes_depths, c, nb)
  IN IF c + nb >= Len(spikes_depths) THEN d2 ELSE DepthLoop(m, d2, c + nb, nb)

ValidChannels(m, cc) ==
  \A i \in 1..Len(cc) : cc[i] \in 0..(Len(m.channel_positions) - 1)

\* Whether make_depths gets through its load, its asserts and its indexing.
DepthsLoadable(m, D) ==
  /\ <<"clusters", "channels", "npy">> \in DOMAIN D
  /\ LET cf == D[<<"clusters", "channels", "npy">>]
     IN /\ Len(cf.shape) = 1
        /\ ValidChannels(m, cf.data)
        /\ ~m.sparse_features.present =>
             \A i \in 1..Len(m.spike_clusters) :
                m.spike_clusters[i] \in 0..(Len(cf.data) - 1)

make_depths(m, D) ==
  IF ~DepthsLoadable(m, D) THEN [ok |-> FALSE, dst |-> D]
  ELSE
    LET cluster_channels == D[<<"clusters", "channels", "npy">>].data
        clusters_depths == [i \in 1..Len(cluster_channels) |->
                              At(m.channel_positions, cluster_channels[i])[2]]
        zeros == [i \in 1..Len(m.spike_times) |-> Frac(0, 1)]
        spikes_depths ==
          IF ~m.sparse_features.present
          THEN [i \in 1..Len(m.spike_clusters) |->
                  Frac(At(clusters_depths, m.spike_clusters[i]), 1)]
          ELSE DepthLoop(m, zeros, 0, nbatch)
        D1 == _save_npy(D, <<"spikes", "depths", "npy">>, Arr1(spikes_depths))
    IN [ok |-> TRUE,
        dst |-> _save_npy(D1, <<"clusters", "depths", "npy">>, Arr1(clusters_depths))]

(***************************************************************************)
(* Stage 6: make_template_object.  A distance is <<0, d>>, or <<1, 0>>     *)
(* for numpy's inf.                                                        *)
(***************************************************************************)
Abs(x) == IF x < 0 THEN -x ELSE x

Inf == <<1, 0>>

DistLt(a, b) == a[1] < b[1] \/ (a[1] = b[1] /\ a[2] < b[2])

\* Lines 257-261: the L1 distance of every channel to the template's peak channel,
\* inf for the channels of another probe.
ChannelDistance(channel_positions, channel_probes, peak) ==
  LET current_probe == At(channel_probes, peak)
      p == At(channel_positions, peak)
  IN [i \in 1..Len(channel_positions) |->
        IF channel_probes[i] # current_probe THEN Inf
        ELSE <<0, Abs(channel_positions[i][1] - p[1]) +
                  Abs(channel_positions[i][2] - p[2])>>]

\* np.argsort: the 0-based indices by ascending value.  numpy's default sort is an
\* insertion sort on arrays this small, so equal values keep their index order.
ArgSort(d) ==
  LET before(i, j) == DistLt(d[i], d[j]) \/ (d[i] = d[j] /\ i < j)
      rank(i) == Cardinality({j \in 1..Len(d) : before(j, i)})
  IN [k \in 1..Len(d) |-> (CHOOSE i \in 1..Len(d) : rank(i) = k - 1) - 1]

\* Line 251: ncw from the channel count of the template tensor.
Ncw(nchall) == Min2(NCH_WAVEFORMS, nchall)

\* Line 262: templates_inds[t, :] for the template whose peak channel is peak.
TemplateInds(channel_positions, channel_probes, peak, nchall) ==
  SubSeq(ArgSort(ChannelDistance(channel_positions, channel_probes, peak)),
         1, Ncw(nchall))

TemplatesRaise(m) ==
  \/ m.sparse_templates.cols # <<>>
  \/ Len(m.sparse_templates.data) # m.n_templates

make_template_object(m, D, amp) ==
  IF TemplatesRaise(m) THEN [ok |-> FALSE, dst |-> D]
  ELSE
    LET data == m.sparse_templates.data
        n_templates == Len(data)
        n_wavsamps == Len(data[1])
        nchall == Len(data[1][1])
        ncw == Ncw(nchall)
        inds == [t \in 1..n_templates |->
                   TemplateInds(m.channel_positions, m.channel_probes,
                                m.templates_channels[t], nchall)]
        templates == [t \in 1..n_templates |-> [s \in 1..n_wavsamps |->
                        [j \in 1..ncw |-> At(data[t][s], inds[t][j]) * amp]]]
        w == Arr(<<n_templates, n_wavsamps, ncw>>, templates)
        wc == Arr(<<n_templates, ncw>>, inds)
        D1 == Put(D, <<"templates", "waveforms", "npy">>, w)
        D2 == Put(D1, <<"templates", "waveformsChannels", "npy">>, wc)
        D3 == Put(D2, <<"clusters", "waveforms", "npy">>, w)
    IN [ok |-> TRUE, dst |-> Put(D3, <<"clusters", "waveformsChannels", "npy">>, wc)]

(***************************************************************************)
(* Stage 7: rm_files, on the source directory.                             *)
(***************************************************************************)
RECURSIVE RmFrom(_, _)
RmFrom(S, i) ==
  IF i > Len(FILE_DELETES) THEN S
  ELSE RmFrom(IF FILE_DELETES[i] \in DOMAIN S THEN Remove(S, FILE_DELETES[i]) ELSE S,
              i + 1)

rm_files(S) == RmFrom(S, 1)

(***************************************************************************)
(* Stage 8: rename_with_label.                                             *)
(***************************************************************************)
glob_patterns == {"channels", "clusters", "spikes", "templates"}

\* out_path.glob(object + '.*'): the names whose first part is the object.
Glob(D) == {f \in DOMAIN D : Len(f) >= 2 /\ f[1] \in glob_patterns}

\* f.rename(target) on POSIX: f is gone, target holds f's content (replacing any
\* file of that name).
Rename(D, f, target) ==
  [x \in ((DOMAIN D) \ {f}) \cup {target} |-> IF x = target THEN D[f] ELSE D[x]]

\* The renames of the listed files whose names have n parts.  No two of them can
\* touch the same name: a rename keeps every part but adds the label, so the
\* targets have n + 1 parts and differ whenever the sources do.
RenameLevel(D, listed, n, lab) ==
  LET fs == {f \in listed : Len(f) = n}
  IN [x \in ((DOMAIN D) \ fs) \cup {WithLabel(f, lab) : f \in fs} |->
        IF \E f \in fs : WithLabel(f, lab) = x
        THEN D[CHOOSE f \in fs : WithLabel(f, lab) = x]
        ELSE D[x]]

\* The directory listing comes in any order; a rename interacts only with renames
\* of names one part longer or shorter, so an order is a sequence of the lengths.
RECURSIVE RenameLevels(_, _, _, _)
RenameLevels(D, listed, order, lab) ==
  IF order = <<>> THEN D
  ELSE RenameLevels(RenameLevel(D, listed, Head(order), lab), listed, Tail(order), lab)

Perms(S) ==
  {p \in [1..Cardinality(S) -> S] : \A i, j \in 1..Cardinality(S) : p[i] = p[j] => i = j}

\* The directories rename_with_label may leave.
rename_with_label(D, lab) ==
  IF lab = "" THEN {D}
  ELSE LET listed == Glob(D)
       IN {RenameLevels(D, listed, order, lab) : order \in Perms({Len(f) : f \in listed})}

(***************************************************************************)
(* The convert pipeline: EphysAlfCreator.convert, one action per stage.    *)
(* convert is synchronous, so pc alone orders the stages.                  *)
(***************************************************************************)
dir_path == "src"

OutPaths == {"src", "src_link", "dst"}

Labels == {"", "probe00"}

AmpFactors == {1, 2}

\* What the source directory may hold when the creator is built.
SrcParams == [x \in {<<"params", "py">>} |-> Text(1)]

SrcOptions ==
  << {<<>>,
      [x \in {<<"spike_clusters", "npy">>} |-> Arr(<<3, 1>>, <<0, 1, 2>>)],
      [x \in {<<"spike_clusters", "npy">>} |-> Arr(<<3>>, <<0, 1, 2>>)]},
     {<<>>, [x \in {<<"cluster_probes", "npy">>} |-> Arr(<<1, 1>>, <<0>>)]},
     {<<>>, [x \in {<<"clusters", "channels", "npy">>} |-> Arr(<<3>>, <<0, 1, 2>>)]},
     {<<>>, [x \in {<<"temp_wh", "dat">>} |-> Text(2)]} >>

Merge(A, B) == [x \in (DOMAIN A) \cup (DOMAIN B) |-> IF x \in DOMAIN A THEN A[x] ELSE B[x]]

SrcDirs ==
  {Merge(SrcParams, Merge(a, Merge(b, Merge(c, d)))) :
     a \in SrcOptions[1], b \in SrcOptions[2], c \in SrcOptions[3], d \in SrcOptions[4]}

\* What the destination may be: no directory, an empty one, or one that holds
\* files of an earlier conversion.
DstDirs ==
  { [exists |-> FALSE, files |-> <<>>],
    [exists |-> TRUE, files |-> <<>>],
    [exists |-> TRUE,
     files |-> [x \in {<<"spikes", "clusters", "npy">>} |-> Arr(<<2>>, <<1, 1>>)]] }

\* History, for the claims: the filesystem and the previous call's outcome and
\* arguments as the current call began, whether this run's cluster stage wrote
\* clusters.channels.npy, and the destination as the rename pass began.
NoHist ==
  [pre_src |-> <<>>, pre_dst |-> <<>>, pre_exists |-> FALSE,
   prev_done |-> FALSE, prev_label |-> "", prev_ampfactor |-> 1,
   wrote_channels |-> FALSE, rename_pre |-> <<>>]

NoFun == <<>>

Init ==
  /\ model \in Models
  /\ src \in SrcDirs
  /\ \E d \in DstDirs : dst = d.files /\ dst_exists = d.exists
  /\ pc = "idle"
  /\ out_path = "dst"
  /\ force = FALSE
  /\ label = ""
  /\ ampfactor = 1
  /\ ncalls = 0
  /\ uuid_ctr = 0
  /\ ret = "None"
  /\ hist = NoHist
  /\ fin = NoFun /\ fout = NoFun /\ fpc = "off"

\* The check without resolve(): another path of the source directory passes.
SameDirectoryUnresolved(o) == o = dir_path

\* Line 110.
SameDirectory(o) == Resolve(o) = Resolve(dir_path)

\* Lines 104-113: the arguments are stored, the same-directory check raises or the
\* destination directory is made.
ConvertCall(o, frc, lab, amp) ==
  /\ pc \in {"idle", "done", "raised", "failed"}
  /\ ncalls < MaxCalls
  /\ ncalls' = ncalls + 1
  /\ out_path' = o
  /\ force' = frc
  /\ label' = lab
  /\ ampfactor' = amp
  /\ hist' = [hist EXCEPT !.pre_src = src, !.pre_dst = dst, !.pre_exists = dst_exists,
                          !.prev_done = (pc = "done"),
                          !.prev_label = label, !.prev_ampfactor = ampfactor,
                          !.wrote_channels = FALSE, !.rename_pre = <<>>]
  /\ IF SameDirectory(o)
     THEN pc' = "raised" /\ UNCHANGED dst_exists
     ELSE pc' = "copy_files" /\ dst_exists' = TRUE
  /\ UNCHANGED <<model, src, dst, uuid_ctr, ret, fun_vars>>

CopyFiles ==
  /\ pc = "copy_files"
  /\ dst' = copy_files(src, dst, force)
  /\ pc' = "make_spike_times_amplitudes"
  /\ UNCHANGED <<model, src, dst_exists, out_path, force, label, ampfactor, ncalls,
                 uuid_ctr, ret, hist, fun_vars>>

MakeSpikeTimesAmplitudes ==
  /\ pc = "make_spike_times_amplitudes"
  /\ dst' = make_spike_times_amplitudes(model, dst, ampfactor)
  /\ pc' = "make_cluster_objects"
  /\ UNCHANGED <<model, src, dst_exists, out_path, force, label, ampfactor, ncalls,
                 uuid_ctr, ret, hist, fun_vars>>

MakeClusterObjects ==
  /\ pc = "make_cluster_objects"
  /\ LET r == make_cluster_objects(model, src, dst, ampfactor, uuid_ctr)
     IN /\ dst' = r.dst
        /\ uuid_ctr' = r.ctr
        /\ pc' = IF r.ok THEN "make_channel_objects" ELSE "failed"
  /\ hist' = [hist EXCEPT !.wrote_channels =
                <<"clusters", "channels", "npy">> \notin DOMAIN src]
  /\ UNCHANGED <<model, src, dst_exists, out_path, force, label, ampfactor, ncalls,
                 ret, fun_vars>>

MakeChannelObjects ==
  /\ pc = "make_channel_objects"
  /\ dst' = make_channel_objects(model, dst)
  /\ pc' = "make_depths"
  /\ UNCHANGED <<model, src, dst_exists, out_path, force, label, ampfactor, ncalls,
                 uuid_ctr, ret, hist, fun_vars>>

MakeDepths ==
  /\ pc = "make_depths"
  /\ LET r == make_depths(model, dst)
     IN /\ dst' = r.dst
        /\ pc' = IF r.ok THEN "make_template_object" ELSE "failed"
  /\ UNCHANGED <<model, src, dst_exists, out_path, force, label, ampfactor, ncalls,
                 uuid_ctr, ret, hist, fun_vars>>

MakeTemplateObject ==
  /\ pc = "make_template_object"
  /\ LET r == make_template_object(model, dst, ampfactor)
     IN /\ dst' = r.dst
        /\ pc' = IF r.ok THEN "rm_files" ELSE "failed"
  /\ UNCHANGED <<model, src, dst_exists, out_path, force, label, ampfactor, ncalls,
                 uuid_ctr, ret, hist, fun_vars>>

RmFiles ==
  /\ pc = "rm_files"
  /\ src' = rm_files(src)
  /\ pc' = "rename_with_label"
  /\ UNCHANGED <<model, dst, dst_exists, out_path, force, label, ampfactor, ncalls,
                 uuid_ctr, ret, hist, fun_vars>>

\* Lines 130-135: the rename pass, then the return value.
RenameWithLabel ==
  /\ pc = "rename_with_label"
  /\ dst' \in rename_with_label(dst, label)
  /\ ret' = IF <<"params", "py">> \in DOMAIN dst' THEN "model" ELSE "None"
  /\ pc' = "done"
  /\ hist' = [hist EXCEPT !.rename_pre = dst]
  /\ UNCHANGED <<model, src, dst_exists, out_path, force, label, ampfactor, ncalls,
                 uuid_ctr, fun_vars>>

Next ==
  \/ \E o \in OutPaths, frc \in BOOLEAN, lab \in Labels, amp \in AmpFactors :
       ConvertCall(o, frc, lab, amp)
  \/ CopyFiles
  \/ MakeSpikeTimesAmplitudes
  \/ MakeClusterObjects
  \/ MakeChannelObjects
  \/ MakeDepths
  \/ MakeTemplateObject
  \/ RmFiles
  \/ RenameWithLabel

Spec == Init /\ [][Next]_vars

(***************************************************************************)
(* The stage computations on their own, over wider inputs than the         *)
(* pipeline's two sorting results.  The pipeline's variables rest.         *)
(***************************************************************************)
ConvertOff ==
  /\ model = ModelDense
  /\ src = <<>> /\ dst = <<>> /\ dst_exists = FALSE
  /\ pc = "off" /\ out_path = "dst" /\ force = FALSE /\ label = "" /\ ampfactor = 1
  /\ ncalls = 0 /\ uuid_ctr = 0 /\ ret = "None" /\ hist = NoHist

(***************************************************************************)
(* SpecCopy: one iteration of copy_files' loop, for any mapping of         *)
(* _FILE_RENAMES, any stored shape of the source, and a destination that   *)
(* is absent or present.                                                   *)
(***************************************************************************)
MaxDim == 2

Range(n) == [i \in 1..n |-> i]

\* The .npy sources: every 1-D and 2-D shape with axes of 1..MaxDim entries.
NpySources ==
  {Arr(<<a>>, Range(a)) : a \in 1..MaxDim} \cup
  {Arr(<<a, b>>, Range(a * b)) : a \in 1..MaxDim, b \in 1..MaxDim}

SourcesOf(r) == IF Suffix(r.fn0) = "npy" THEN NpySources ELSE {Text(1)}

StaleOf(r) == IF Suffix(r.fn1) = "npy" THEN Arr(<<2>>, <<7, 7>>) ELSE Text(9)

InitCopy ==
  /\ ConvertOff
  /\ \E i \in 1..Len(_FILE_RENAMES), frc \in BOOLEAN, has0 \in BOOLEAN, has1 \in BOOLEAN :
       LET r == _FILE_RENAMES[i]
       IN \E c \in SourcesOf(r) :
            fin = [r |-> r, force |-> frc,
                   S |-> IF has0 THEN [x \in {r.fn0} |-> c] ELSE <<>>,
                   D |-> IF has1 THEN [x \in {r.fn1} |-> StaleOf(r)] ELSE <<>>]
  /\ fout = NoFun
  /\ fpc = "call"

Migrate ==
  /\ fpc = "call"
  /\ fout' = CopyOne(fin.S, fin.D, fin.r, fin.force)
  /\ fpc' = "done"
  /\ UNCHANGED <<fin, convert_vars>>

NextCopy == Migrate

SpecCopy == InitCopy /\ [][NextCopy]_vars

(***************************************************************************)
(* SpecCluster: make_cluster_objects over any observed cluster ids and     *)
(* amplitudes.                                                             *)
(***************************************************************************)
MaxClusterId == 3

Amps == {0, 3}

\* self.cluster_ids is _unique(spike_clusters): ascending, without duplicates.
ClusterIdSeqs == {SortedSeq(S) : S \in (SUBSET (0..MaxClusterId)) \ {{}}}

AmplitudeSeqs == UNION {[1..n -> Amps] : n \in 1..(MaxClusterId + 1)}

InitCluster ==
  /\ ConvertOff
  /\ \E ids \in ClusterIdSeqs, ta \in AmplitudeSeqs, amp \in AmpFactors, has \in BOOLEAN :
       fin = [m |-> [ModelDense EXCEPT !.cluster_ids = ids, !.templates_amplitudes = ta],
              ampfactor |-> amp,
              S |-> IF has THEN [x \in {<<"clusters", "channels", "npy">>} |->
                                   Arr(<<3>>, <<0, 1, 2>>)]
                    ELSE <<>>]
  /\ fout = NoFun
  /\ fpc = "call"

ClusterObjects ==
  /\ fpc = "call"
  /\ fout' = make_cluster_objects(fin.m, fin.S, <<>>, fin.ampfactor, 0)
  /\ fpc' = "done"
  /\ UNCHANGED <<fin, convert_vars>>

NextCluster == ClusterObjects

SpecCluster == InitCluster /\ [][NextCluster]_vars

(***************************************************************************)
(* SpecTemplate: the channel selection of make_template_object over any    *)
(* layout of up to MaxChannels channels on two probes.                     *)
(***************************************************************************)
MaxChannels == 3

Positions == {<<0, 0>>, <<0, 1>>, <<1, 0>>}

InitTemplate ==
  /\ ConvertOff
  /\ \E n \in 1..MaxChannels :
       \E pos \in [1..n -> Positions], probes \in [1..n -> 0..1], peak \in 0..(n - 1) :
          fin = [channel_positions |-> pos, channel_probes |-> probes,
                 peak |-> peak, nchall |-> n]
  /\ fout = NoFun
  /\ fpc = "call"

SelectChannels ==
  /\ fpc = "call"
  /\ fout' = TemplateInds(fin.channel_positions, fin.channel_probes, fin.peak, fin.nchall)
  /\ fpc' = "done"
  /\ UNCHANGED <<fin, convert_vars>>

NextTemplate == SelectChannels

SpecTemplate == InitTemplate /\ [][NextTemplate]_vars

(***************************************************************************)
(* SpecDepth: the batched loop of make_depths, one pass per step, for any  *)
(* batch size.                                                             *)
(***************************************************************************)
MaxSpikes == 3

MaxBatch == 3

BatchSizes == (1..MaxBatch) \cup {nbatch}

\* A spike's features: two local channels, three components each.
FeatureRows == {<< <<a, 1, 1>>, <<b, 1, 1>> >> : a \in {0, 2}, b \in {0, 1}}

FeatureCols == << <<0, 1>>, <<1, 2>> >>

InitDepth ==
  /\ ConvertOff
  /\ \E n \in 0..MaxSpikes, nb \in BatchSizes :
       \E data \in [1..n -> FeatureRows], sc \in [1..n -> 0..1] :
          fin = [m |-> [ModelDense EXCEPT
                          !.spike_times = [i \in 1..n |-> i],
                          !.spike_clusters = sc,
                          !.sparse_features =
                             [present |-> TRUE, data |-> data, cols |-> FeatureCols]],
                 nb |-> nb]
  /\ fout = [spikes_depths |-> [i \in 1..Len(fin.m.spike_times) |-> Frac(0, 1)],
             c |-> 0,
             writes |-> [i \in 1..Len(fin.m.spike_times) |-> 0],
             passes |-> 0]
  /\ fpc = "loop"

\* Lines 229-239: one pass; writes and passes count, for the claims, how often each
\* spike was assigned and how many passes ran.
DepthPass ==
  /\ fpc = "loop"
  /\ fout' = [spikes_depths |-> DepthBatch(fin.m, fout.spikes_depths, fout.c, fin.nb),
              c |-> fout.c + fin.nb,
              writes |-> [i \in 1..Len(fout.writes) |->
                            fout.writes[i] +
                            (IF (i - 1) \in Ispi(fout.c, fin.nb, Len(fout.writes))
                             THEN 1 ELSE 0)],
              passes |-> fout.passes + 1]
  /\ fpc' = IF fout.c + fin.nb >= Len(fout.spikes_depths) THEN "done" ELSE "loop"
  /\ UNCHANGED <<fin, convert_vars>>

NextDepth == DepthPass

SpecDepth == InitDepth /\ [][NextDepth]_vars

(***************************************************************************)
(* SpecProject: the sparse projection from_sparse(data, cols, channel_ids) *)
(* of phylib/io/model.py, which test_from_sparse exercises.  data and cols *)
(* are [rows][n_local]; a row of cols holds distinct channel ids.          *)
(***************************************************************************)
MaxIds == 2

HasDuplicates(s) == \E i, j \in 1..Len(s) : i # j /\ s[i] = s[j]

\* The local slots of one row, scattered in turn into the requested columns.
RECURSIVE ScatterRow(_, _, _, _, _)
ScatterRow(out, drow, crow, channel_ids, k) ==
  IF k > Len(crow) THEN out
  ELSE ScatterRow([j \in 1..Len(out) |->
                     IF channel_ids[j] = crow[k] THEN drow[k] ELSE out[j]],
                  drow, crow, channel_ids, k + 1)

\* The projection with its columns in ascending id order, not the requested order.
from_sparse_sorted(data, cols, channel_ids) ==
  IF HasDuplicates(channel_ids) THEN [ok |-> FALSE, out |-> <<>>]
  ELSE [ok |-> TRUE,
        out |-> [r \in 1..Len(data) |->
                   ScatterRow([j \in 1..Len(channel_ids) |-> 0], data[r], cols[r],
                              Unique(channel_ids), 1)]]

from_sparse(data, cols, channel_ids) ==
  IF HasDuplicates(channel_ids) THEN [ok |-> FALSE, out |-> <<>>]
  ELSE [ok |-> TRUE,
        out |-> [r \in 1..Len(data) |->
                   ScatterRow([j \in 1..Len(channel_ids) |-> 0], data[r], cols[r],
                              channel_ids, 1)]]

\* The arrays of test_from_sparse.
TestData == << <<0, 1, 2>>, <<3, 4, 5>> >>

TestCols == << <<20, 23, 21>>, <<21, 19, 22>> >>

ChannelIds == {0, 19, 20, 21}

Injective(s) == ~HasDuplicates(s)

SparseInputs ==
  {[data |-> TestData, cols |-> TestCols]} \cup
  {[data |-> <<d1, d2>>, cols |-> <<c1, c2>>] :
     d1 \in {<<1, 2>>, <<0, 3>>}, d2 \in {<<1, 2>>, <<0, 3>>},
     c1 \in {c \in [1..2 -> {19, 20, 21}] : Injective(c)},
     c2 \in {c \in [1..2 -> {19, 20, 21}] : Injective(c)}}

InitProject ==
  /\ ConvertOff
  /\ \E x \in SparseInputs, n \in 1..MaxIds :
       \E ids \in [1..n -> ChannelIds] :
          fin = [data |-> x.data, cols |-> x.cols, channel_ids |-> ids]
  /\ fout = NoFun
  /\ fpc = "call"

Project ==
  /\ fpc = "call"
  /\ fout' = from_sparse(fin.data, fin.cols, fin.channel_ids)
  /\ fpc' = "done"
  /\ UNCHANGED <<fin, convert_vars>>

NextProject == Project

SpecProject == InitProject /\ [][NextProject]_vars

(***************************************************************************)
(* The claims.                                                             *)
(***************************************************************************)
ChannelsFile == <<"clusters", "channels", "npy">>

\* C1: a convert call whose destination resolves to the source directory ends in
\* the error, and the filesystem is as the call found it: no directory made, no
\* file created, changed, renamed or deleted.
C1_SameDirectoryFailsFast ==
  (ncalls > 0 /\ Resolve(out_path) = Resolve(dir_path)) =>
     /\ pc = "raised"
     /\ src = hist.pre_src
     /\ dst = hist.pre_dst
     /\ dst_exists = hist.pre_exists

\* C1's case: the call named the source by another path, the destination
\* directory did not exist, and the call has raised.
C1_Witness ==
  /\ pc = "raised"
  /\ out_path = "src_link"
  /\ ~dst_exists
  /\ <<"temp_wh", "dat">> \in DOMAIN src

\* C2, as claimed: when a completed convert is followed by a second completed
\* convert with force disabled (same label, same amplitude factor), every file the
\* destination held after the first run is there, unchanged, after the second.
C2_NoClobberIdempotent ==
  (/\ pc = "done" /\ hist.prev_done /\ ~force
   /\ label = "" /\ hist.prev_label = "" /\ ampfactor = hist.prev_ampfactor) =>
     \A f \in DOMAIN hist.pre_dst : f \in DOMAIN dst /\ dst[f] = hist.pre_dst[f]

\* C3, as claimed: a migration whose destination exists is skipped without force,
\* and one whose source is absent is skipped; the destination directory is then as
\* it was.
C3_MigrationSkipPolicy ==
  fpc = "done" =>
     /\ (fin.r.fn1 \in DOMAIN fin.D /\ ~fin.force) => fout = fin.D
     /\ (fin.r.fn0 \notin DOMAIN fin.S) => fout = fin.D

\* C4, as claimed: the channels selected for a template all lie on the probe of
\* its peak channel, and there are min(32, channels on that probe) of them.
C4_SameProbeSelection ==
  fpc = "done" =>
     LET probe == At(fin.channel_probes, fin.peak)
         onprobe == {i \in 0..(fin.nchall - 1) : At(fin.channel_probes, i) = probe}
     IN /\ \A j \in 1..Len(fout) : fout[j] \in onprobe
        /\ Len(fout) = Min2(NCH_WAVEFORMS, Cardinality(onprobe))

\* C5: for duplicate-free requested ids the projection has one row per data row and
\* one column per requested id, in the requested order; column j of row r is the
\* data value at the local slot of cols[r] that holds the j-th id, and 0 when no
\* slot of the row holds it.
C5_SparseProjection ==
  (fpc = "done" /\ ~HasDuplicates(fin.channel_ids)) =>
     /\ fout.ok
     /\ Len(fout.out) = Len(fin.data)
     /\ \A r \in 1..Len(fin.data) :
          /\ Len(fout.out[r]) = Len(fin.channel_ids)
          /\ \A j \in 1..Len(fin.channel_ids) :
               LET slots == {k \in 1..Len(fin.cols[r]) : fin.cols[r][k] = fin.channel_ids[j]}
               IN /\ slots = {} => fout.out[r][j] = 0
                  /\ \A k \in slots : fout.out[r][j] = fin.data[r][k]

\* C5's case: test_from_sparse's arrays projected on [21, 19] gave [[2, 0], [3, 4]].
C5_Witness ==
  /\ fpc = "done"
  /\ fin.data = TestData /\ fin.cols = TestCols
  /\ fin.channel_ids = <<21, 19>>
  /\ fout.ok /\ fout.out = << <<2, 0>>, <<3, 4>> >>

\* C6: the batched loop is a partition of the spikes: c advances by the batch size
\* each pass, the loop goes on only while spikes are left (so it ends), no spike is
\* assigned twice, exactly the spikes below c have been assigned, and at the end
\* every spike holds the depth of its own weights and channels, whatever the batch
\* size.
C6_DepthBatchPartition ==
  LET nspi == Len(fout.spikes_depths)
  IN /\ fout.c = fout.passes * fin.nb
     /\ fpc = "loop" => (fout.passes = 0 \/ fout.c < nspi)
     /\ fpc = "done" => fout.c >= nspi
     /\ \A i \in 1..nspi : fout.writes[i] = (IF i - 1 < fout.c THEN 1 ELSE 0)
     /\ \A i \in 1..nspi :
          fout.writes[i] = 1 => fout.spikes_depths[i] = SpikeDepth(fin.m, i - 1)

\* C6's case: three spikes in batches of two took two passes, the last one short.
C6_Witness ==
  /\ fpc = "done"
  /\ Len(fout.spikes_depths) = 3
  /\ fin.nb = 2
  /\ fout.passes = 2
  /\ \E i \in 1..3 : fout.spikes_depths[i].den # 0

\* C7: when the cluster stage completes, clusters.amps.npy has max(id) - min(id) + 1
\* slots; the slot of each observed id holds its amplitude times the amplitude
\* factor, the slot of each unobserved id holds NaN (which is not zero), and
\* clusters.uuids.csv holds one identifier per slot, all distinct.
C7_ClusterAggregation ==
  (fpc = "done" /\ fout.ok) =>
     LET ids == fin.m.cluster_ids
         ta == fin.m.templates_amplitudes
         lo == SeqMin(ids)
         size == SeqMax(ids) - lo + 1
         amps == fout.dst[<<"clusters", "amps", "npy">>]
         uuids == fout.dst[<<"clusters", "uuids", "csv">>].data
     IN /\ amps.shape = <<size>>
        /\ Len(amps.data) = size
        /\ \A i \in 1..Len(ids) :
             amps.data[ids[i] - lo + 1] =
                F((IF Len(ta) = 1 THEN ta[1] ELSE ta[i]) * fin.ampfactor)
        /\ \A k \in 1..size :
             (\A i \in 1..Len(ids) : ids[i] # lo + k - 1) =>
                (amps.data[k] = NaN /\ amps.data[k] # F(0))
        /\ Len(uuids) = size + 1
        /\ \A a, b \in 2..Len(uuids) : a # b => uuids[a] # uuids[b]

\* C7's case: ids 0 and 3 observed, 1 and 2 not, and an observed amplitude of zero.
C7_Witness ==
  /\ fpc = "done" /\ fout.ok
  /\ fin.m.cluster_ids = <<0, 3>>
  /\ fin.m.templates_amplitudes = <<0, 3>>
  /\ fin.ampfactor = 2
  /\ fout.dst[<<"clusters", "amps", "npy">>].data = <<F(0), NaN, NaN, F(6)>>

\* C8, as claimed: into an absent destination, a stored [N, 1] array migrated with
\* squeeze comes out with shape [N] and the same values; without squeeze, or with
\* any other shape, the file is copied as it is.
C8_SqueezeInvariant ==
  (/\ fpc = "done"
   /\ fin.r.fn0 \in DOMAIN fin.S
   /\ fin.r.fn1 \notin DOMAIN fin.D
   /\ Suffix(fin.r.fn0) = "npy") =>
     LET c == fin.S[fin.r.fn0]
         o == fout[fin.r.fn1]
     IN IF Len(c.shape) = 2 /\ c.shape[2] = 1 /\ fin.r.squeeze = "True"
        THEN o.shape = <<c.shape[1]>> /\ o.data = c.data
        ELSE o = c

\* C9, as claimed: when the depth stage starts, clusters.channels.npy is in the
\* destination, written there by the cluster stage of this run.
C9_DepthsFindsChannels ==
  pc = "make_depths" => (ChannelsFile \in DOMAIN dst /\ hist.wrote_channels)

\* C10, as claimed: after a completed convert with a label, every file of the
\* spikes, clusters, channels and templates objects is object.attribute.label.ext
\* with the label once, and the settings file keeps its name; with an empty label
\* the rename pass renames nothing.
C10_LabelExactlyOnce ==
  pc = "done" =>
     IF label = "" THEN dst = hist.rename_pre
     ELSE /\ \A f \in DOMAIN dst :
               f[1] \in glob_patterns =>
                  /\ Len(f) = 4
                  /\ f[3] = label
                  /\ Cardinality({i \in 1..Len(f) : f[i] = label}) = 1
          /\ <<"params", "py">> \in DOMAIN dst

====
